---- MODULE Spec2Model ----
(***************************************************************************)
(* Model of the scrub-and-verify pipeline of NoMetaDataFree:               *)
(* the worker (scrubWorker.ts: includesAscii, verify, verifyDeep,          *)
(* isHeicLike, decodeHeicToImageData, scrub, self.onmessage) and the       *)
(* batch orchestrator of App (resetOutputs, onPickFiles, onScrub).         *)
(*                                                                         *)
(* Strings that the code inspects (file names, MIME types, bytes, marker   *)
(* needles) are sequences of character codes.  Quality is in hundredths.   *)
(***************************************************************************)
EXTENDS Integers, Sequences, FiniteSets, TLC

\* ------------------------------------------------------------------ bounds

\* Longest list of files one pick/drop event delivers.
MaxFiles == 2

\* Number of onScrub invocations that may be suspended at once.
MaxRuns == 2

\* Longest tag directory of a file handed to the worker on its own.
MaxTags == 2

\* Longest byte string and longest needle the scanner is tried on.
MaxBytes == 4
MaxNeedle == 3

\* ------------------------------------------------------- values and fixtures

\* JavaScript `undefined` for string-valued and for object-valued fields.
Undefined == "undefined"
NoValue == [undefined |-> TRUE]
\* `null` of the standalone error state.
Null == "null"

OutputTypes == {"image/jpeg", "image/png", "image/webp"}

\* The output types the select is switched between in the batch runs.
SelectedTypes == {"image/jpeg", "image/png"}

\* Positions of the quality slider, in hundredths (min 0.1, max 1).
Qualities == {10, 92}

S_Exif == <<69, 120, 105, 102>>
S_XmpMeta == <<60, 120, 58, 120, 109, 112, 109, 101, 116, 97>>
S_XapNs == <<104, 116, 116, 112, 58, 47, 47, 110, 115, 46, 97, 100, 111, 98, 101, 46, 99, 111, 109, 47, 120, 97, 112, 47, 49, 46, 48, 47>>
S_DcNs == <<104, 116, 116, 112, 58, 47, 47, 112, 117, 114, 108, 46, 111, 114, 103, 47, 100, 99, 47, 101, 108, 101, 109, 101, 110, 116, 115, 47, 49, 46, 49, 47>>
S_Photoshop == <<80, 104, 111, 116, 111, 115, 104, 111, 112, 32, 51, 46, 48>>
S_IPTC == <<73, 80, 84, 67>>
S_8BIM == <<56, 66, 73, 77>>
S_dotHeic == <<46, 104, 101, 105, 99>>
S_dotHeif == <<46, 104, 101, 105, 102>>
S_dotAvif == <<46, 97, 118, 105, 102>>
S_heic == <<104, 101, 105, 99>>
S_heif == <<104, 101, 105, 102>>
S_avif == <<97, 118, 105, 102>>
S_octetStream == <<97, 112, 112, 108, 105, 99, 97, 116, 105, 111, 110, 47, 111, 99, 116, 101, 116, 45, 115, 116, 114, 101, 97, 109>>

\* Magic numbers the stand-in decoders and encoders use.
JpegSOI == <<255, 216>>
PngSig == <<137, 80, 78, 71>>
RiffSig == <<82, 73, 70, 70>>
FtypHeic == <<102, 116, 121, 112, 104, 101, 105, 99>>

\* photo.jpg, image/jpeg: a JPEG carrying an EXIF block (make, latitude,
\* date) and an IPTC block.
PhotoJpg ==
  [ name  |-> <<112, 104, 111, 116, 111, 46, 106, 112, 103>>,
    type  |-> <<105, 109, 97, 103, 101, 47, 106, 112, 101, 103>>,
    bytes |-> JpegSOI \o S_Exif \o <<1, 2, 7>> \o S_8BIM ]

\* broken.png, image/png: bytes that are no image.
BrokenPng ==
  [ name  |-> <<98, 114, 111, 107, 101, 110, 46, 112, 110, 103>>,
    type  |-> <<105, 109, 97, 103, 101, 47, 112, 110, 103>>,
    bytes |-> <<0, 1, 2>> ]

\* photo.HEIC with an empty File.type, carrying the decimal coordinates.
PhotoHeic ==
  [ name  |-> <<112, 104, 111, 116, 111, 46, 72, 69, 73, 67>>,
    type  |-> << >>,
    bytes |-> FtypHeic \o <<4, 5>> ]

\* File names and a MIME type for the decoder dispatch: burst.heics, heic.jpg,
\* scan.Avif, image/HEIF; and 'iptc' in lower case.
N_burstHeics == <<98, 117, 114, 115, 116, 46, 104, 101, 105, 99, 115>>
N_heicJpg == <<104, 101, 105, 99, 46, 106, 112, 103>>
N_scanAvif == <<115, 99, 97, 110, 46, 65, 118, 105, 102>>
M_imageHEIF == <<105, 109, 97, 103, 101, 47, 72, 69, 73, 70>>
S_iptcLower == <<105, 112, 116, 99>>

\* The files a user picks from in the batch runs.
Files == {PhotoJpg, BrokenPng}

\* Tag names verifyDeep reads from the parsed mapping.
K_GPSLatitude == <<71, 80, 83, 76, 97, 116, 105, 116, 117, 100, 101>>
K_latitude == <<108, 97, 116, 105, 116, 117, 100, 101>>
K_GPSLongitude == <<71, 80, 83, 76, 111, 110, 103, 105, 116, 117, 100, 101>>
K_longitude == <<108, 111, 110, 103, 105, 116, 117, 100, 101>>
K_DateTimeOriginal == <<68, 97, 116, 101, 84, 105, 109, 101, 79, 114, 105, 103, 105, 110, 97, 108>>
K_DateTime == <<68, 97, 116, 101, 84, 105, 109, 101>>
K_DateTimeOriginalAlias == <<68, 97, 116, 101, 47, 84, 105, 109, 101, 32, 79, 114, 105, 103, 105, 110, 97, 108>>
K_Make == <<77, 97, 107, 101>>
K_make == <<109, 97, 107, 101>>
K_Model == <<77, 111, 100, 101, 108>>
K_model == <<109, 111, 100, 101, 108>>
K_Software == <<83, 111, 102, 116, 119, 97, 114, 101>>
K_software == <<115, 111, 102, 116, 119, 97, 114, 101>>

\* ------------------------------------------------------------ string helpers

\* s starts with p.
StartsWith(s, p) ==
  /\ Len(p) <= Len(s)
  /\ \A k \in 1..Len(p) : s[k] = p[k]

\* String.prototype.endsWith
EndsWith(s, p) ==
  /\ Len(p) <= Len(s)
  /\ \A k \in 1..Len(p) : s[Len(s) - Len(p) + k] = p[k]

\* String.prototype.includes
Includes(s, p) ==
  \E i \in 0..(Len(s) - Len(p)) : \A k \in 1..Len(p) : s[i + k] = p[k]

\* String.prototype.toLowerCase on the ASCII range.
ToLowerCase(s) ==
  [k \in 1..Len(s) |-> IF s[k] \in 65..90 THEN s[k] + 32 ELSE s[k]]

\* a < b in the code-unit order Array.prototype.sort uses for strings.
RECURSIVE StrLess(_, _)
StrLess(a, b) ==
  IF b = << >> THEN FALSE
  ELSE IF a = << >> THEN TRUE
  ELSE IF Head(a) # Head(b) THEN Head(a) < Head(b)
  ELSE StrLess(Tail(a), Tail(b))

\* Insert k into the sorted sequence s.
RECURSIVE SortedInsert(_, _)
SortedInsert(s, k) ==
  IF s = << >> THEN <<k>>
  ELSE IF StrLess(k, Head(s)) THEN <<k>> \o s
  ELSE <<Head(s)>> \o SortedInsert(Tail(s), k)

\* Array.prototype.sort() on an array of strings.
RECURSIVE SortStrings(_)
SortStrings(s) ==
  IF s = << >> THEN << >> ELSE SortedInsert(SortStrings(Tail(s)), Head(s))

\* ---------------------------------------------------------- marker scanner

\* includesAscii, the inner loop: the needle's code units from position j on,
\* masked to 8 bits, against the bytes at offset i.
RECURSIVE includesAsciiRest(_, _, _, _)
includesAsciiRest(bytes, needle, i, j) ==
  IF j >= Len(needle) THEN TRUE
  ELSE IF bytes[i + j + 1] # needle[j + 1] % 256 THEN FALSE
  ELSE includesAsciiRest(bytes, needle, i, j + 1)

\* The outer loop with a bound that stops one offset early.
RECURSIVE includesAsciiFromShort(_, _, _)
includesAsciiFromShort(bytes, needle, i) ==
  IF ~(i < Len(bytes) - Len(needle)) THEN FALSE
  ELSE IF bytes[i + 1] # needle[1] % 256
  THEN includesAsciiFromShort(bytes, needle, i + 1)
  ELSE IF includesAsciiRest(bytes, needle, i, 1) THEN TRUE
  ELSE includesAsciiFromShort(bytes, needle, i + 1)

\* includesAscii, the outer loop from offset i: a first-byte filter, then the
\* comparison of the rest.
RECURSIVE includesAsciiFrom(_, _, _)
includesAsciiFrom(bytes, needle, i) ==
  IF ~(i <= Len(bytes) - Len(needle)) THEN FALSE
  ELSE IF bytes[i + 1] # needle[1] % 256
  THEN includesAsciiFrom(bytes, needle, i + 1)
  ELSE IF includesAsciiRest(bytes, needle, i, 1) THEN TRUE
  ELSE includesAsciiFrom(bytes, needle, i + 1)

\* includesAscii
includesAscii(bytes, needle) ==
  IF Len(needle) = 0 THEN TRUE ELSE includesAsciiFrom(bytes, needle, 0)

\* The battery without the '8BIM' signature.
verifyNoBim(bytes) ==
  [ hasExif |-> includesAscii(bytes, S_Exif),
    hasXmp  |-> \/ includesAscii(bytes, S_XmpMeta)
                \/ includesAscii(bytes, S_XapNs)
                \/ includesAscii(bytes, S_DcNs),
    hasIptc |-> \/ includesAscii(bytes, S_Photoshop)
                \/ includesAscii(bytes, S_IPTC),
    exifKeys |-> << >>,
    gps |-> NoValue,
    dateTimeOriginal |-> NoValue,
    make |-> NoValue,
    model |-> NoValue,
    software |-> NoValue ]

\* verify: the fixed battery of signatures.
verify(bytes) ==
  [ hasExif |-> includesAscii(bytes, S_Exif),
    hasXmp  |-> \/ includesAscii(bytes, S_XmpMeta)
                \/ includesAscii(bytes, S_XapNs)
                \/ includesAscii(bytes, S_DcNs),
    hasIptc |-> \/ includesAscii(bytes, S_Photoshop)
                \/ includesAscii(bytes, S_IPTC)
                \/ includesAscii(bytes, S_8BIM),
    exifKeys |-> << >>,
    gps |-> NoValue,
    dateTimeOriginal |-> NoValue,
    make |-> NoValue,
    model |-> NoValue,
    software |-> NoValue ]

\* ------------------------------------------------- structured extractor

\* The tags a directory byte stands for, as exifr reports them with
\* translateKeys off: the raw GPS tags are degree triples, the lowercase
\* aliases are the decimal numbers exifr computes.
TagTable ==
  << [key |-> K_Make, val |-> [str |-> "Canon"]],
     [key |-> K_GPSLatitude, val |-> [num |-> 51]],
     [key |-> K_GPSLatitude, val |-> [arr |-> <<51, 30, 0>>]],
     [key |-> K_latitude, val |-> [num |-> 51]],
     [key |-> K_longitude, val |-> [num |-> 4]],
     [key |-> K_GPSLongitude, val |-> [arr |-> <<4, 15, 0>>]],
     [key |-> K_DateTimeOriginal, val |-> [str |-> "2024:01:01"]] >>

\* The directory byte of an entry that is cut short.
TruncatedTag == 9

IsDirectoryByte(b) == b \in DOMAIN TagTable \/ b = TruncatedTag

\* Object.assign of one entry: a key already present keeps its place and
\* takes the new value.
AssignEntry(obj, e) ==
  IF \E k \in 1..Len(obj) : obj[k].key = e.key
  THEN [k \in 1..Len(obj) |-> IF obj[k].key = e.key THEN e ELSE obj[k]]
  ELSE Append(obj, e)

\* mergeOutput: the entries of the main, EXIF and GPS directories in one object.
RECURSIVE MergeOutput(_)
MergeOutput(entries) ==
  IF entries = << >> THEN << >>
  ELSE AssignEntry(MergeOutput(SubSeq(entries, 1, Len(entries) - 1)),
                   entries[Len(entries)])

\* exifr.parse (a library): it throws on an unknown container and on an entry
\* cut short, yields undefined when the container holds no tag directory, and
\* otherwise the merged mapping, here the object's entries [key, val] in the
\* object's own order.  A JPEG holds its directory in an Exif segment, a HEIC container
\* holds it without the literal.
ExifrParse(bytes) ==
  IF \/ StartsWith(bytes, JpegSOI) /\ includesAscii(bytes, S_Exif)
     \/ StartsWith(bytes, FtypHeic)
  THEN LET dir == SelectSeq(bytes, IsDirectoryByte) IN
       IF \E k \in 1..Len(dir) : dir[k] = TruncatedTag
       THEN [ threw |-> TRUE, value |-> NoValue ]
       ELSE [ threw |-> FALSE,
              value |-> [ entries |->
                          MergeOutput([k \in 1..Len(dir) |-> TagTable[dir[k]]]) ] ]
  ELSE IF \/ StartsWith(bytes, JpegSOI)
          \/ StartsWith(bytes, PngSig)
          \/ StartsWith(bytes, RiffSig)
  THEN [ threw |-> FALSE, value |-> NoValue ]
  ELSE [ threw |-> TRUE, value |-> NoValue ]

\* parsed[key], undefined when the mapping has no such key.
Prop(parsed, key) ==
  IF \E k \in 1..Len(parsed) : parsed[k].key = key
  THEN parsed[CHOOSE k \in 1..Len(parsed) : parsed[k].key = key].val
  ELSE NoValue

\* a ?? b
Coalesce(a, b) == IF a = NoValue THEN b ELSE a

\* typeof v === 'number'
IsNumber(v) == "num" \in DOMAIN v

\* Object.keys(parsed)
ObjectKeys(parsed) == [k \in 1..Len(parsed) |-> parsed[k].key]

\* The key list left in the object's own order.
exifKeysUnsorted(parsed) == ObjectKeys(parsed)

\* Object.keys(parsed).sort()
exifKeysOf(parsed) == SortStrings(ObjectKeys(parsed))

\* The flag taken from the scanner alone.
hasExifMarkerOnly(base, keys) == base.hasExif

\* base.hasExif || keys.length > 0
hasExifWith(base, keys) == base.hasExif \/ Len(keys) > 0

\* A gps field filled whenever a latitude tag of any type was read.
gpsOfAnyLatitude(parsed) ==
  LET latitude == Coalesce(Prop(parsed, K_GPSLatitude), Prop(parsed, K_latitude))
      longitude == Coalesce(Prop(parsed, K_GPSLongitude), Prop(parsed, K_longitude))
  IN IF latitude # NoValue \/ IsNumber(longitude)
     THEN [latitude |-> latitude, longitude |-> longitude]
     ELSE NoValue

\* The gps field: set only when a coordinate is a number.
gpsOf(parsed) ==
  LET latitude == Coalesce(Prop(parsed, K_GPSLatitude), Prop(parsed, K_latitude))
      longitude == Coalesce(Prop(parsed, K_GPSLongitude), Prop(parsed, K_longitude))
  IN IF IsNumber(latitude) \/ IsNumber(longitude)
     THEN [latitude |-> latitude, longitude |-> longitude]
     ELSE NoValue

\* The object branch of verifyDeep: base completed from the parsed mapping.
completed(base, parsed) ==
  LET keys == exifKeysOf(parsed) IN
  [ hasExif |-> hasExifWith(base, keys),
    hasXmp |-> base.hasXmp,
    hasIptc |-> base.hasIptc,
    exifKeys |-> keys,
    gps |-> gpsOf(parsed),
    dateTimeOriginal |->
      Coalesce(Prop(parsed, K_DateTimeOriginal),
               Coalesce(Prop(parsed, K_DateTime),
                        Prop(parsed, K_DateTimeOriginalAlias))),
    make |-> Coalesce(Prop(parsed, K_Make), Prop(parsed, K_make)),
    model |-> Coalesce(Prop(parsed, K_Model), Prop(parsed, K_model)),
    software |-> Coalesce(Prop(parsed, K_Software), Prop(parsed, K_software)) ]

\* A catch clause that answers with a cleared snapshot.
verifyDeepClearsOnThrow(bytes) ==
  LET base == verify(bytes)
      r == ExifrParse(bytes)
  IN
  IF r.threw THEN [base EXCEPT !.hasExif = FALSE, !.hasXmp = FALSE, !.hasIptc = FALSE]
  ELSE IF r.value = NoValue THEN base
  ELSE completed(base, r.value.entries)

\* verifyDeep: the scanner's snapshot, completed from the parsed mapping
\* when the parse yields an object; a parse error is swallowed.
verifyDeep(bytes) ==
  LET base == verify(bytes)
      r == ExifrParse(bytes)
  IN
  IF r.threw \/ r.value = NoValue THEN base
  ELSE completed(base, r.value.entries)

\* ------------------------------------------------------------------ state

VARIABLES
  items,       \* App state: the batch, a sequence of BatchItem
  outputType,  \* App state: the selected output type
  quality,     \* App state: the selected quality, in hundredths
  busy,        \* App state: a scrub run is active
  error,       \* App state: the standalone error, or Null
  lifecycle,   \* "rendered" before the worker effect ran, "mounted", "unmounted"
  runs,        \* the suspended onScrub invocations, oldest first
  toWorker,    \* requests posted to the worker and not yet received by it
  toMain,      \* responses posted by the worker and not yet dispatched
  platform     \* capabilities of the worker's platform

vars == <<items, outputType, quality, busy, error, lifecycle, runs,
          toWorker, toMain, platform>>

\* What the platform may lack: a 2d context for OffscreenCanvas, an encoder.
Platforms ==
  { [context2d |-> TRUE, encoder |-> TRUE],
    [context2d |-> FALSE, encoder |-> TRUE],
    [context2d |-> TRUE, encoder |-> FALSE] }

\* workerRef.current
workerRef == IF lifecycle = "mounted" THEN "worker" ELSE Null

\* ------------------------------------------------------- container decoder

\* isHeicLike comparing the file name as it is written.
isHeicLikeCaseSensitive(fileName, mimeType) ==
  LET n == fileName
      m == ToLowerCase(mimeType)
  IN \/ EndsWith(n, S_dotHeic)
     \/ EndsWith(n, S_dotHeif)
     \/ EndsWith(n, S_dotAvif)
     \/ Includes(m, S_heic)
     \/ Includes(m, S_heif)
     \/ Includes(m, S_avif)

\* isHeicLike
isHeicLike(fileName, mimeType) ==
  LET n == ToLowerCase(fileName)
      m == ToLowerCase(mimeType)
  IN \/ EndsWith(n, S_dotHeic)
     \/ EndsWith(n, S_dotHeif)
     \/ EndsWith(n, S_dotAvif)
     \/ Includes(m, S_heic)
     \/ Includes(m, S_heif)
     \/ Includes(m, S_avif)

\* HeifDecoder.decode (libheif): the images of the container.  An image whose
\* last byte is 0 makes the display callback report no data.
HeifDecode(bytes) ==
  IF StartsWith(bytes, FtypHeic)
  THEN << [width |-> Len(bytes), height |-> 1,
           displayable |-> bytes[Len(bytes)] # 0] >>
  ELSE << >>

\* A thrown error, and a value returned normally.
Throw(msg) == [threw |-> TRUE, message |-> msg]
Return(v) == [threw |-> FALSE, value |-> v]

\* A decoder that hands out the blank image data when the display callback
\* reports none.
decodeHeicDefaultsToImage(bytes) ==
  LET data == HeifDecode(bytes) IN
  IF Len(data) = 0 THEN Throw("HEIC decode failed: no images found")
  ELSE IF ~platform.context2d THEN Throw("Failed to create canvas context")
  ELSE Return([width |-> data[1].width, height |-> data[1].height])

\* decodeHeicToImageData
decodeHeicToImageData(bytes) ==
  LET data == HeifDecode(bytes) IN
  IF Len(data) = 0 THEN Throw("HEIC decode failed: no images found")
  ELSE IF ~platform.context2d THEN Throw("Failed to create canvas context")
  ELSE IF ~data[1].displayable THEN Throw("HEIC processing error")
  ELSE Return([width |-> data[1].width, height |-> data[1].height])

\* createImageBitmap (the platform's decoder): rejects what is no raster container.
createImageBitmap(bytes) ==
  IF \/ StartsWith(bytes, JpegSOI)
     \/ StartsWith(bytes, PngSig)
     \/ StartsWith(bytes, RiffSig)
  THEN Return([width |-> Len(bytes), height |-> 1])
  ELSE Throw("The source image could not be decoded.")

\* The canvas of scrub: the HEIC adapter or the native path.
decodeToCanvas(req) ==
  IF isHeicLike(req.fileName, req.mimeType)
  THEN LET imgData == decodeHeicToImageData(req.bytes) IN
       IF imgData.threw THEN imgData
       ELSE IF ~platform.context2d THEN Throw("Failed to create canvas context")
       ELSE Return(imgData.value)
  ELSE LET bitmap == createImageBitmap(req.bytes) IN
       IF bitmap.threw THEN bitmap
       ELSE IF ~platform.context2d THEN Throw("Failed to create canvas context")
       ELSE Return(bitmap.value)

\* ---------------------------------------------------------------- re-encoder

\* Math.min(1, q): the lower limit forgotten.
clampQualityUpperOnly(q) == IF q < 100 THEN q ELSE 100

\* Math.min(1, Math.max(0, q)), in hundredths.
clampQuality(q) ==
  LET lo == IF q > 0 THEN q ELSE 0 IN IF lo < 100 THEN lo ELSE 100

\* OffscreenCanvas.convertToBlob (the platform's encoder): the container's
\* signature, the quality for the lossy types, and the picture.
convertToBlob(canvas, type, q) ==
  IF ~platform.encoder THEN Throw("convertToBlob failed")
  ELSE Return([ type |-> type,
                bytes |-> (CASE type = "image/jpeg" -> JpegSOI \o <<q>>
                             [] type = "image/png" -> PngSig
                             [] OTHER -> RiffSig \o <<q>>)
                          \o <<canvas.width, canvas.height>> ])

\* ------------------------------------------------------------------- worker

\* A try block that takes the after snapshot of the request's bytes.
scrubTryVerifiesOriginal(req) ==
  LET before == verifyDeep(req.bytes)
      canvas == decodeToCanvas(req)
  IN
  IF canvas.threw THEN canvas
  ELSE
    LET out == convertToBlob(canvas.value, req.outputType, clampQuality(req.quality)) IN
    IF out.threw THEN out
    ELSE
      LET cleanedBytes == out.value.bytes
          after == verifyDeep(req.bytes)
      IN Return([ id |-> req.id,
                  ok |-> TRUE,
                  cleanedBytes |-> cleanedBytes,
                  cleanedMimeType |-> IF out.value.type = "" THEN req.outputType
                                      ELSE out.value.type,
                  before |-> before,
                  after |-> after ])

\* The try block of scrub.
scrubTry(req) ==
  LET before == verifyDeep(req.bytes)
      canvas == decodeToCanvas(req)
  IN
  IF canvas.threw THEN canvas
  ELSE
    LET out == convertToBlob(canvas.value, req.outputType, clampQuality(req.quality)) IN
    IF out.threw THEN out
    ELSE
      LET cleanedBytes == out.value.bytes
          after == verifyDeep(cleanedBytes)
      IN Return([ id |-> req.id,
                  ok |-> TRUE,
                  cleanedBytes |-> cleanedBytes,
                  cleanedMimeType |-> IF out.value.type = "" THEN req.outputType
                                      ELSE out.value.type,
                  before |-> before,
                  after |-> after ])

\* A catch clause that throws the error again.
scrubCatchRethrow(req, e) == Throw(e.message)

\* The catch clause of scrub.
scrubCatch(req, e) == Return([id |-> req.id, ok |-> FALSE, error |-> e.message])

\* scrub: what the promise settles with.
scrub(req) ==
  LET r == scrubTry(req) IN IF r.threw THEN scrubCatch(req, r) ELSE r

\* -------------------------------------------------------------- orchestrator

\* The lists of files one pick or drop can deliver.
FileLists == UNION { [1..n -> Files] : n \in 0..MaxFiles }

\* The ids crypto.randomUUID can return, in blocks of MaxFiles: one block
\* for the batch, one for each suspended onScrub, one for the list picked.
IdBlocks == 0..(MaxRuns + 1)

IdBlock(b) == { b * MaxFiles + k : k \in 1..MaxFiles }

IdsOf(seq) == { seq[k].id : k \in 1..Len(seq) }

UsedIds ==
  IdsOf(items) \cup IdsOf(toWorker) \cup IdsOf(toMain)
    \cup UNION { IdsOf(runs[r].items) : r \in 1..Len(runs) }

\* n ids that are in use nowhere: the first ids of the first unused block.
FreshIds(n, used) ==
  LET b == CHOOSE i \in IdBlocks :
             /\ IdBlock(i) \cap used = {}
             /\ \A j \in IdBlocks : IdBlock(j) \cap used = {} => i <= j
  IN [k \in 1..n |-> b * MaxFiles + k]

\* A new BatchItem of onPickFiles.
newItem(id, file) ==
  [ id |-> id, file |-> file, status |-> "pending",
    error |-> Undefined, before |-> NoValue, after |-> NoValue,
    cleanedBlob |-> NoValue, cleanedUrl |-> NoValue ]

\* canScrub without its busy test.
canScrubIgnoringBusy == Len(items) > 0

\* canScrub
canScrub == Len(items) > 0 /\ ~busy

\* resetOutputs that leaves the error message behind.
resetOutputsKeepError(prev) ==
  [ k \in 1..Len(prev) |->
      [ prev[k] EXCEPT !.status = "pending",
                       !.before = NoValue, !.after = NoValue,
                       !.cleanedBlob = NoValue, !.cleanedUrl = NoValue ] ]

\* resetOutputs: the updater it hands to setItems.
resetOutputs(prev) ==
  [ k \in 1..Len(prev) |->
      [ prev[k] EXCEPT !.status = "pending", !.error = Undefined,
                       !.before = NoValue, !.after = NoValue,
                       !.cleanedBlob = NoValue, !.cleanedUrl = NoValue ] ]

\* The updater without its id test.
markProcessingAll(prev, id) ==
  [ k \in 1..Len(prev) |-> [prev[k] EXCEPT !.status = "processing"] ]

\* onScrub: the updater that marks the item being dispatched.
markProcessing(prev, id) ==
  [ k \in 1..Len(prev) |->
      IF prev[k].id = id THEN [prev[k] EXCEPT !.status = "processing"]
      ELSE prev[k] ]

\* The failure updater without its id test.
markErrorAll(prev, id, res) ==
  [ k \in 1..Len(prev) |->
      [prev[k] EXCEPT !.status = "error", !.error = res.error] ]

\* onScrub: the updater for a failure response.
markError(prev, id, res) ==
  [ k \in 1..Len(prev) |->
      IF prev[k].id = id
      THEN [prev[k] EXCEPT !.status = "error", !.error = res.error]
      ELSE prev[k] ]

\* The success updater without its id test.
markDoneAll(prev, id, res) ==
  LET blob == [bytes |-> res.cleanedBytes, type |-> res.cleanedMimeType]
      url == [objectUrlOf |-> blob]
  IN
  [ k \in 1..Len(prev) |->
      [prev[k] EXCEPT !.status = "done", !.before = res.before,
                      !.after = res.after, !.cleanedBlob = blob,
                      !.cleanedUrl = url] ]

\* The success updater that forgets the after snapshot.
markDoneNoAfter(prev, id, res) ==
  LET blob == [bytes |-> res.cleanedBytes, type |-> res.cleanedMimeType]
      url == [objectUrlOf |-> blob]
  IN
  [ k \in 1..Len(prev) |->
      IF prev[k].id = id
      THEN [prev[k] EXCEPT !.status = "done", !.before = res.before,
                           !.cleanedBlob = blob, !.cleanedUrl = url]
      ELSE prev[k] ]

\* onScrub: the updater for a success response.
markDone(prev, id, res) ==
  LET blob == [bytes |-> res.cleanedBytes, type |-> res.cleanedMimeType]
      url == [objectUrlOf |-> blob]
  IN
  [ k \in 1..Len(prev) |->
      IF prev[k].id = id
      THEN [prev[k] EXCEPT !.status = "done", !.before = res.before,
                           !.after = res.after, !.cleanedBlob = blob,
                           !.cleanedUrl = url]
      ELSE prev[k] ]

\* onScrub: the request built for one item.
payload(it, run) ==
  [ id |-> it.id,
    fileName |-> it.file.name,
    mimeType |-> IF it.file.type = << >> THEN S_octetStream ELSE it.file.type,
    bytes |-> it.file.bytes,
    outputType |-> run.outputType,
    quality |-> run.quality ]

\* What the sender holds of a buffer it named in a transfer list.
Detached == [detached |-> TRUE]

\* worker.postMessage(payload, [bytes]): the buffer changes owner.
postedWithTransfer(buffer) == Detached

\* onMessage: the listener's filter on the response id.
listenerAccepts(ev, it) == ev.id = it.id

\* A listener that is never removed.
removeEventListenerForgotten(listeners, id) == listeners

\* worker.removeEventListener('message', onMessage)
removeEventListener(listeners, id) == listeners \ {id}

\* worker.addEventListener('message', onMessage)
addEventListener(listeners, id) == listeners \cup {id}

\* The for loop of onScrub steps to its next item, with a new `bytes`, or ends.
nextIteration(run) ==
  IF run.idx < Len(run.items)
  THEN [run EXCEPT !.idx = @ + 1, !.pc = "reading", !.bytes = NoValue]
  ELSE [run EXCEPT !.pc = "done"]

\* The `continue` after a failure response.
continueLoop(run) == nextIteration(run)

\* One suspended onScrub is resumed with the response it awaited: the status
\* update of its item, then the loop up to its next await or to setBusy(false).
resume(ev, k, st) ==
  LET run0 == st.runs[k]
      it == run0.items[run0.idx]
      run == [run0 EXCEPT !.listeners = removeEventListener(@, it.id)]
      its1 == IF ~ev.ok THEN markError(st.items, it.id, ev)
              ELSE markDone(st.items, it.id, ev)
      run1 == IF ~ev.ok THEN continueLoop(run) ELSE nextIteration(run)
  IN
  [ runs |-> [st.runs EXCEPT ![k] = run1],
    items |-> IF run1.pc = "reading"
              THEN markProcessing(its1, run1.items[run1.idx].id)
              ELSE its1,
    busy |-> IF run1.pc = "done" THEN FALSE ELSE st.busy ]

\* The listener of the k-th suspended onScrub sees the event.
onMessage(ev, k, st) ==
  LET run == st.runs[k] IN
  IF run.pc = "waiting" /\ listenerAccepts(ev, run.items[run.idx])
  THEN resume(ev, k, st)
  ELSE st

\* The event is dispatched to every registered listener, oldest first.
RECURSIVE dispatchEvent(_, _, _)
dispatchEvent(ev, k, st) ==
  IF k > Len(st.runs) THEN st
  ELSE dispatchEvent(ev, k + 1, onMessage(ev, k, st))

Live(run) == run.pc # "done"

\* ------------------------------------------------------------------ actions

Init ==
  /\ items = << >>
  /\ outputType = "image/jpeg"
  /\ quality = 92
  /\ busy = FALSE
  /\ error = Null
  /\ lifecycle = "rendered"
  /\ runs = << >>
  /\ toWorker = << >>
  /\ toMain = << >>
  /\ platform \in Platforms

Interactive == lifecycle \in {"rendered", "mounted"}

\* The effect that creates the worker.
WorkerEffect ==
  /\ lifecycle = "rendered"
  /\ lifecycle' = "mounted"
  /\ UNCHANGED <<items, outputType, quality, busy, error, runs,
                 toWorker, toMain, platform>>

\* A cleanup that also cancels the suspended runs.
WorkerCleanupCancels ==
  /\ lifecycle = "mounted"
  /\ lifecycle' = "unmounted"
  /\ toWorker' = << >>
  /\ toMain' = << >>
  /\ runs' = << >>
  /\ busy' = FALSE
  /\ UNCHANGED <<items, outputType, quality, error, platform>>

\* The effect's cleanup: the worker is terminated with whatever it holds.
WorkerCleanup ==
  /\ lifecycle = "mounted"
  /\ lifecycle' = "unmounted"
  /\ toWorker' = << >>
  /\ toMain' = << >>
  /\ UNCHANGED <<items, outputType, quality, busy, error, runs, platform>>

SetOutputType(t) ==
  /\ Interactive
  /\ t # outputType
  /\ outputType' = t
  /\ UNCHANGED <<items, quality, busy, error, lifecycle, runs,
                 toWorker, toMain, platform>>

\* The quality slider, disabled while the output type is PNG.  It is left out
\* of Next: the batch runs below keep the slider at its initial position.
SetQuality(q) ==
  /\ Interactive
  /\ outputType # "image/png"
  /\ q # quality
  /\ quality' = q
  /\ UNCHANGED <<items, outputType, busy, error, lifecycle, runs,
                 toWorker, toMain, platform>>

\* onPickFiles, from the dropzone or the file input.
OnPickFiles(files) ==
  /\ Interactive
  /\ error' = Null
  /\ items' = LET ids == FreshIds(Len(files), UsedIds) IN
              [k \in 1..Len(files) |-> newItem(ids[k], files[k])]
  /\ UNCHANGED <<outputType, quality, busy, lifecycle, runs,
                 toWorker, toMain, platform>>

\* The Reset button, disabled while busy or with no items.
OnReset ==
  /\ Interactive
  /\ Len(items) > 0 /\ ~busy
  /\ error' = Null
  /\ items' = resetOutputs(items)
  /\ UNCHANGED <<outputType, quality, busy, lifecycle, runs,
                 toWorker, toMain, platform>>

\* onScrub calling setBusy(true) before it looks at the worker.
OnScrubBusyFirst ==
  /\ Interactive
  /\ canScrub
  /\ Len(runs) < MaxRuns
  /\ IF workerRef = Null
     THEN /\ error' = "Worker not initialized"
          /\ busy' = TRUE
          /\ UNCHANGED <<items, runs>>
     ELSE /\ error' = Null
          /\ busy' = TRUE
          /\ items' = markProcessing(resetOutputs(items), items[1].id)
          /\ runs' = Append(runs,
                [ items |-> [k \in 1..Len(items) |->
                               [id |-> items[k].id, file |-> items[k].file]],
                  idx |-> 1,
                  pc |-> "reading",
                  outputType |-> outputType,
                  quality |-> quality,
                  posted |-> << >>,
                  bytes |-> NoValue,
                  listeners |-> {} ])
  /\ UNCHANGED <<outputType, quality, lifecycle, toWorker, toMain, platform>>

\* The Scrub button, disabled unless canScrub: onScrub up to its first await.
OnScrub ==
  /\ Interactive
  /\ canScrub
  /\ Len(runs) < MaxRuns
  /\ IF workerRef = Null
     THEN /\ error' = "Worker not initialized"
          /\ UNCHANGED <<items, busy, runs>>
     ELSE /\ error' = Null
          /\ busy' = TRUE
          /\ items' = markProcessing(resetOutputs(items), items[1].id)
          /\ runs' = Append(runs,
                [ items |-> [k \in 1..Len(items) |->
                               [id |-> items[k].id, file |-> items[k].file]],
                  idx |-> 1,
                  pc |-> "reading",
                  outputType |-> outputType,
                  quality |-> quality,
                  posted |-> << >>,
                  bytes |-> NoValue,
                  listeners |-> {} ])
  /\ UNCHANGED <<outputType, quality, lifecycle, toWorker, toMain, platform>>

\* it.file.arrayBuffer() resolves: the listener is added, the request posted.
ReadDone(r) ==
  /\ runs[r].pc = "reading"
  /\ LET run == runs[r]
         req == payload(run.items[run.idx], run)
     IN /\ runs' = [runs EXCEPT ![r] =
                     [run EXCEPT !.pc = "waiting",
                                 !.posted = Append(@, req.id),
                                 !.listeners = addEventListener(@, req.id),
                                 !.bytes = postedWithTransfer(req.bytes)]]
        /\ toWorker' = IF lifecycle = "mounted" THEN Append(toWorker, req)
                       ELSE toWorker
  /\ UNCHANGED <<items, outputType, quality, busy, error, lifecycle,
                 toMain, platform>>

\* it.file.arrayBuffer() rejects: onScrub ends with the rejection.
ReadFail(r) ==
  /\ runs[r].pc = "reading"
  /\ runs' = SelectSeq([runs EXCEPT ![r] = [@ EXCEPT !.pc = "done"]], Live)
  /\ UNCHANGED <<items, outputType, quality, busy, error, lifecycle,
                 toWorker, toMain, platform>>

\* A transfer list that names cleanedBytes for either variant.
responseTransferAlways(res) == {"cleanedBytes"}

\* The transfer list of the response: [res.cleanedBytes] if res.ok, else none.
responseTransfer(res) == IF res.ok THEN {"cleanedBytes"} ELSE {}

\* postMessage throws on a transfer list entry that is no buffer.
Transferable(res, transfer) == transfer \subseteq DOMAIN res

\* self.onmessage: scrub, then the response; nothing is posted if scrub
\* rejects or postMessage throws.
WorkerOnMessage ==
  /\ lifecycle = "mounted"
  /\ toWorker # << >>
  /\ LET res == scrub(Head(toWorker)) IN
     toMain' = IF res.threw \/ ~Transferable(res.value, responseTransfer(res.value))
               THEN toMain
               ELSE Append(toMain, res.value)
  /\ toWorker' = Tail(toWorker)
  /\ UNCHANGED <<items, outputType, quality, busy, error, lifecycle,
                 runs, platform>>

\* A 'message' event of the worker reaches the main thread.
MessageEvent ==
  /\ lifecycle = "mounted"
  /\ toMain # << >>
  /\ LET st == dispatchEvent(Head(toMain), 1,
                             [runs |-> runs, items |-> items, busy |-> busy])
     IN /\ runs' = SelectSeq(st.runs, Live)
        /\ items' = st.items
        /\ busy' = st.busy
  /\ toMain' = Tail(toMain)
  /\ UNCHANGED <<outputType, quality, error, lifecycle, toWorker, platform>>

Next ==
  \/ WorkerEffect
  \/ WorkerCleanup
  \/ \E t \in SelectedTypes : SetOutputType(t)
  \/ \E files \in FileLists : OnPickFiles(files)
  \/ OnReset
  \/ OnScrub
  \/ \E r \in 1..Len(runs) : ReadDone(r)
  \/ \E r \in 1..Len(runs) : ReadFail(r)
  \/ WorkerOnMessage
  \/ MessageEvent

Spec == Init /\ [][Next]_vars

\* ------------------------------------------------- one request on its own

\* Tag directories of up to MaxTags entries, entries cut short included.
TagSeqs ==
  UNION { [1..n -> DOMAIN TagTable \cup {TruncatedTag}] : n \in 0..MaxTags }

\* Byte strings over 'A' and 'a'.
RawBytes == UNION { [1..n -> {65, 97}] : n \in 0..MaxBytes }

\* The signatures of the scanner's battery.
XmpSignatures == {S_XmpMeta, S_XapNs, S_DcNs}
IptcSignatures == {S_Photoshop, S_IPTC, S_8BIM}

\* File contents for the snapshot: JPEGs with and without an Exif segment,
\* HEIC containers, two of them with an image that cannot be displayed, files
\* carrying one signature behind a directory that
\* parses, behind one that is cut short, or behind nothing, and raw strings.
SnapshotBytes ==
  { JpegSOI \o S_Exif \o t : t \in TagSeqs }
    \cup { FtypHeic \o t : t \in TagSeqs }
    \cup { FtypHeic \o t \o <<0>> : t \in {<< >>, <<1>>} }
    \cup { JpegSOI \o t : t \in TagSeqs }
    \cup { c \o m : c \in {JpegSOI \o S_Exif \o <<1>>, FtypHeic \o <<TruncatedTag>>, << >>},
                    m \in XmpSignatures \cup IptcSignatures \cup {S_iptcLower} }
    \cup RawBytes

FileNames == {PhotoJpg.name, PhotoHeic.name, N_burstHeics, N_heicJpg, N_scanAvif}
FileTypes == {<< >>, PhotoJpg.type, M_imageHEIF}

\* Requested qualities, in hundredths, in and out of range.
QualityInputs == {-20, 0, 10, 92, 100, 150}

\* A file with its settings: every name and type on three contents, every
\* content under two names, every setting on three files.
WorkerInputs ==
  { [file |-> [name |-> n, type |-> t, bytes |-> b],
     outputType |-> "image/jpeg", quality |-> 92] :
      n \in FileNames, t \in FileTypes,
      b \in {PhotoJpg.bytes, PhotoHeic.bytes, BrokenPng.bytes} }
    \cup
  { [file |-> [name |-> f.name, type |-> f.type, bytes |-> b],
     outputType |-> "image/jpeg", quality |-> 92] :
      f \in {PhotoJpg, PhotoHeic}, b \in SnapshotBytes }
    \cup
  { [file |-> f, outputType |-> t, quality |-> q] :
      f \in {PhotoJpg, PhotoHeic, BrokenPng}, t \in OutputTypes,
      q \in QualityInputs }

\* A batch of one file whose request has just been posted.
WorkerInit ==
  \E in \in WorkerInputs :
    LET run == [ items |-> << [id |-> 1, file |-> in.file] >>,
                 idx |-> 1,
                 pc |-> "waiting",
                 outputType |-> in.outputType,
                 quality |-> in.quality,
                 posted |-> <<1>>,
                 bytes |-> Detached,
                 listeners |-> {1} ]
    IN
    /\ items = markProcessing(<< newItem(1, in.file) >>, 1)
    /\ outputType = in.outputType
    /\ quality = in.quality
    /\ busy = TRUE
    /\ error = Null
    /\ lifecycle = "mounted"
    /\ runs = << run >>
    /\ toWorker = << payload(run.items[1], run) >>
    /\ toMain = << >>
    /\ platform \in Platforms

WorkerNext ==
  \/ WorkerOnMessage
  \/ MessageEvent

WorkerSpec == WorkerInit /\ [][WorkerNext]_vars

\* ------------------------------------------------------------------- claims

StatusesOf(seq) == [k \in 1..Len(seq) |-> seq[k].status]

\* The moves of the per-item state machine, staying put included.
LegalMove(s, t) ==
  \/ s = t
  \/ s = "pending" /\ t = "processing"
  \/ s = "processing" /\ t \in {"done", "error"}

\* C1: an item's status only moves pending -> processing -> done or error;
\* a done or error item changes status only in a step that performs the batch
\* reset (the Reset button, or the start of a run, which resets and then
\* dispatches the first item).
C1_StatusMachine ==
  [][ \A i \in 1..Len(items), j \in 1..Len(items') :
        items[i].id = items'[j].id =>
          \/ LegalMove(items[i].status, items'[j].status)
          \/ /\ OnReset \/ OnScrub
             /\ LegalMove("pending", items'[j].status) ]_vars

\* A run has finished its first item and works on the second.
C1_Witness ==
  /\ busy
  /\ StatusesOf(items) = <<"done", "processing">>

\* C2: at most one item is 'processing'.
C2_OneProcessing ==
  Cardinality({ k \in 1..Len(items) : items[k].status = "processing" }) <= 1

\* The second item is being processed after the first one failed.
C2_Witness ==
  /\ Len(runs) = 1
  /\ StatusesOf(items) = <<"error", "processing">>

Terminal(s) == s \in {"done", "error"}

\* The request the k-th suspended onScrub is waiting on, or about to post.
Awaited(run) == run.items[run.idx]

\* C3: within a run the request for position i is posted only after every
\* item at an earlier position has reached done or error, and no item of the
\* run is posted twice.
C3_InOrderDispatch ==
  [][ \A r \in 1..Len(runs) :
        ReadDone(r) =>
          /\ \A j \in 1..(runs[r].idx - 1) :
               \E k \in 1..Len(items) :
                 /\ items[k].id = runs[r].items[j].id
                 /\ Terminal(items[k].status)
          /\ \A n \in 1..Len(runs[r].posted) :
               runs[r].posted[n] # Awaited(runs[r]).id ]_vars

\* C4: at most one request or response is in flight, it belongs to the item
\* the only active run is waiting on, and no second run is active.
C4_SingleFlight ==
  /\ Len(toWorker) + Len(toMain) <= 1
  /\ Len(runs) <= 1
  /\ runs # << >> => busy
  /\ \A m \in { toWorker[n] : n \in 1..Len(toWorker) }
              \cup { toMain[n] : n \in 1..Len(toMain) } :
       /\ Len(runs) = 1
       /\ runs[1].pc = "waiting"
       /\ m.id = Awaited(runs[1]).id

\* The second request of a run is in flight, the first having been answered.
C4_Witness ==
  /\ Len(runs) = 1
  /\ runs[1].idx = 2
  /\ Len(toWorker) = 1
  /\ Terminal(items[1].status)

\* Whether scrub answers this file with the failure variant.
Fails(file) ==
  ~scrub(payload([id |-> 0, file |-> file],
                 [outputType |-> outputType, quality |-> quality])).value.ok

\* C5: a failure response makes its item 'error' with the response's message
\* and the run goes on to the next item; three queued items of which only
\* the second fails end as done, error, done.
C5_FailureIsolated ==
  [][ (MessageEvent /\ Len(runs) = 1 /\ runs[1].pc = "waiting"
         /\ Head(toMain).id = Awaited(runs[1]).id) =>
        LET ev == Head(toMain)
            run == runs[1]
        IN
        /\ ~ev.ok =>
             /\ \E k \in 1..Len(items') :
                  /\ items'[k].id = ev.id
                  /\ items'[k].status = "error"
                  /\ items'[k].error = ev.error
             /\ IF run.idx < Len(run.items)
                THEN /\ Len(runs') = 1
                     /\ runs'[1].idx = run.idx + 1
                     /\ runs'[1].pc = "reading"
                ELSE runs' = << >> /\ ~busy'
        /\ ( /\ runs' = << >>
             /\ Len(run.items) = 3
             /\ ~Fails(run.items[1].file)
             /\ Fails(run.items[2].file)
             /\ ~Fails(run.items[3].file) ) =>
             StatusesOf(items') = <<"done", "error", "done">> ]_vars

\* The two variants of a response.
SuccessFields == {"id", "ok", "cleanedBytes", "cleanedMimeType", "before", "after"}
FailureFields == {"id", "ok", "error"}

\* C6: the worker answers every request it receives with exactly one
\* response carrying the request's id, the success variant or the failure
\* variant; a failure inside scrub becomes the failure variant with its message.
C6_OneResponsePerRequest ==
  [][ WorkerOnMessage =>
        LET req == Head(toWorker)
            r == scrubTry(req)
        IN
        /\ Len(toMain') = Len(toMain) + 1
        /\ SubSeq(toMain', 1, Len(toMain)) = toMain
        /\ LET res == toMain'[Len(toMain')] IN
           /\ res.id = req.id
           /\ IF r.threw
              THEN /\ DOMAIN res = FailureFields
                   /\ ~res.ok
                   /\ res.error = r.message
              ELSE /\ DOMAIN res = SuccessFields
                   /\ res.ok ]_vars

\* The worker has answered with each variant for a failure that is not the
\* decoder's: the platform gives no 2d context, or no encoder.
C6_Witness ==
  /\ Len(toMain) = 1
  /\ ~toMain[1].ok
  /\ toMain[1].error \in {"Failed to create canvas context", "convertToBlob failed"}

\* What the scrub of an item's own file answers under the settings of a run.
OwnResponse(it, type, q) ==
  scrub(payload(it, [outputType |-> type, quality |-> q])).value

\* The item records the answer to the scrub of its own file.
RecordsOwnResult(it) ==
  \E type \in OutputTypes, q \in Qualities :
    LET res == OwnResponse(it, type, q) IN
    IF it.status = "done"
    THEN /\ res.ok
         /\ it.before = res.before
         /\ it.after = res.after
         /\ it.cleanedBlob = [bytes |-> res.cleanedBytes, type |-> res.cleanedMimeType]
    ELSE /\ ~res.ok
         /\ it.error = res.error

C8_TaggedUnion ==
  /\ \A n \in 1..Len(toMain) :
       IF toMain[n].ok THEN DOMAIN toMain[n] = SuccessFields
       ELSE DOMAIN toMain[n] = FailureFields
  /\ \A k \in 1..Len(items) :
       LET it == items[k]
           outputs == {it.before, it.after, it.cleanedBlob, it.cleanedUrl}
       IN CASE it.status = "done" ->
                 /\ NoValue \notin outputs
                 /\ it.error = Undefined
            [] it.status = "error" ->
                 /\ it.error # Undefined
                 /\ outputs = {NoValue}
            [] OTHER ->
                 /\ it.error = Undefined
                 /\ outputs = {NoValue}

\* A success response is on its way while an earlier item holds an error.
C8_Witness ==
  /\ Len(toMain) = 1
  /\ toMain[1].ok
  /\ \E k \in 1..Len(items) : items[k].status = "error"

\* C9: while busy, the items change only by the orchestrator's own status
\* updates.
C9_FrozenWhileBusy ==
  [][ (busy /\ items' # items) => MessageEvent ]_vars

\* C10: a batch reset leaves every item pending with no error, before, after
\* or cleaned output, clears the standalone error, and keeps the number,
\* order, id and file of the items; the reset onScrub performs does the
\* same before the first item is marked.
C10_ResetFrame ==
  /\ [][ OnReset =>
           /\ error' = Null
           /\ Len(items') = Len(items)
           /\ \A k \in 1..Len(items) :
                items'[k] = newItem(items[k].id, items[k].file) ]_vars
  /\ [][ (OnScrub /\ busy') =>
           /\ error' = Null
           /\ Len(items') = Len(items)
           /\ \A k \in 1..Len(items) :
                items'[k] = [ newItem(items[k].id, items[k].file) EXCEPT
                                !.status = IF k = 1 THEN "processing"
                                           ELSE "pending" ] ]_vars

\* The Reset button is enabled on a batch that holds results of both kinds.
C10_Witness ==
  /\ Interactive
  /\ ~busy
  /\ \E k \in 1..Len(items) : items[k].cleanedUrl # NoValue
  /\ \E k \in 1..Len(items) : items[k].error # Undefined

\* ------------------------------------------------ claims on one request

\* The needle occurs in the bytes as a contiguous run.
Occurs(bytes, needle) ==
  \E i \in 0..(Len(bytes) - Len(needle)) :
    SubSeq(bytes, i + 1, i + Len(needle)) = needle

\* The snapshots of one worker step, each with the bytes it was taken of:
\* the one verifyDeep returns for the request, and the two of a success response.
SnapshotsOf(req, res) ==
  { [bytes |-> req.bytes, snap |-> verifyDeep(req.bytes)] }
    \cup IF res.ok
         THEN { [bytes |-> req.bytes, snap |-> res.before],
                [bytes |-> res.cleanedBytes, snap |-> res.after] }
         ELSE {}

\* The tag names the structured extractor produced for the bytes.
ExtractedKeys(bytes) ==
  LET r == ExifrParse(bytes) IN
  IF r.threw \/ r.value = NoValue THEN {}
  ELSE { r.value.entries[k].key : k \in 1..Len(r.value.entries) }

\* The file of the request the worker is handed.
RequestFile == runs[1].items[1].file

\* C11: in every snapshot hasExif is true exactly when the literal 'Exif'
\* occurs in the bytes or the extractor produced at least one key; a
\* non-empty exifKeys implies hasExif.
C11_HasExifIsOr ==
  [][ WorkerOnMessage =>
        \A p \in SnapshotsOf(Head(toWorker), toMain'[Len(toMain')]) :
          /\ p.snap.hasExif <=>
               (Occurs(p.bytes, S_Exif) \/ ExtractedKeys(p.bytes) # {})
          /\ p.snap.exifKeys # << >> => p.snap.hasExif ]_vars

\* A success response whose before snapshot has hasExif from the keys alone:
\* the file holds tags and nowhere the literal.
C11_Witness ==
  /\ Len(toMain) = 1
  /\ toMain[1].ok
  /\ toMain[1].before.hasExif
  /\ toMain[1].before.exifKeys # << >>
  /\ ~Occurs(RequestFile.bytes, S_Exif)

\* Needles over 'A' and 'a', and the signatures of the battery.
Needles ==
  UNION { [1..n -> {65, 97}] : n \in 0..MaxNeedle }
    \cup XmpSignatures \cup IptcSignatures \cup {S_Exif}

\* C12: includesAscii is true exactly when the needle occurs in the bytes as
\* a contiguous run, byte for byte; the empty needle is found in any bytes,
\* a needle longer than the bytes in none.
C12_ScannerIsSubstringSearch ==
  [][ WorkerOnMessage =>
        \A needle \in Needles :
          LET bytes == Head(toWorker).bytes IN
          /\ includesAscii(bytes, needle) <=> Occurs(bytes, needle)
          /\ includesAscii(bytes, << >>)
          /\ Len(needle) > Len(bytes) => ~includesAscii(bytes, needle) ]_vars

\* The worker has scanned bytes in which a needle fails at the first offset
\* and is found at the last one.
C12_Witness ==
  /\ Len(toMain) = 1
  /\ RequestFile.bytes = <<65, 65, 97>>
  /\ includesAscii(RequestFile.bytes, <<65, 97>>)
  /\ ~includesAscii(RequestFile.bytes, <<97, 65>>)

\* C13: hasXmp is true exactly when one of the three XMP signatures occurs
\* in the bytes, hasIptc exactly when one of the three IPTC signatures does,
\* whether the structured parse yields tags, nothing, or throws.
C13_ScannerDecidesXmpIptc ==
  [][ WorkerOnMessage =>
        \A p \in SnapshotsOf(Head(toWorker), toMain'[Len(toMain')]) :
          /\ p.snap.hasXmp <=> (\E m \in XmpSignatures : Occurs(p.bytes, m))
          /\ p.snap.hasIptc <=> (\E m \in IptcSignatures : Occurs(p.bytes, m)) ]_vars

\* A success response for a file whose only IPTC signature is '8BIM' and
\* whose directory was parsed: the before snapshot has tags and hasIptc.
C13_Witness ==
  /\ Len(toMain) = 1
  /\ toMain[1].ok
  /\ toMain[1].before.hasIptc
  /\ ~toMain[1].before.hasXmp
  /\ toMain[1].before.exifKeys # << >>
  /\ Occurs(RequestFile.bytes, S_8BIM)
  /\ ~Occurs(RequestFile.bytes, S_IPTC)

\* The words that mark a HEIC, HEIF or AVIF file.
HeicWords == {S_heic, S_heif, S_avif}

\* A character with its case folded.
FoldCase(c) == IF c \in 65..90 THEN c + 32 ELSE c

\* w occurs in s, case ignored.
ContainsFolded(s, w) ==
  \E i \in 0..(Len(s) - Len(w)) : \A k \in 1..Len(w) : FoldCase(s[i + k]) = w[k]

\* s is w, case ignored.
EqualsFolded(s, w) ==
  /\ Len(s) = Len(w)
  /\ \A k \in 1..Len(w) : FoldCase(s[k]) = w[k]

\* The extension of a file name: what follows its last dot.
Extension(name) ==
  LET dots == { k \in 1..Len(name) : name[k] = 46 } IN
  IF dots = {} THEN << >>
  ELSE SubSeq(name, (CHOOSE k \in dots : \A j \in dots : j <= k) + 1, Len(name))

\* The decode path a response shows: only the adapter reports that a
\* container holds no images, only the native path that the source cannot
\* be decoded, and only the adapter gets past a HEIC container.
TookHeicPath(req, res) ==
  IF StartsWith(req.bytes, FtypHeic)
  THEN ~(~res.ok /\ res.error = "The source image could not be decoded.")
  ELSE ~res.ok /\ res.error = "HEIC decode failed: no images found"

\* C14 as stated: a request takes the HEIC path exactly when its file name
\* extension or its MIME type contains 'heic', 'heif' or 'avif', case
\* ignored; photo.HEIC with an empty type takes the HEIC path.
C14_SubstringDispatch ==
  [][ WorkerOnMessage =>
        LET req == Head(toWorker)
            res == toMain'[Len(toMain')]
        IN
        /\ TookHeicPath(req, res) <=>
             \E w \in HeicWords :
               \/ ContainsFolded(Extension(req.fileName), w)
               \/ ContainsFolded(req.mimeType, w)
        /\ (req.fileName = PhotoHeic.name /\ RequestFile.type = << >>) =>
             TookHeicPath(req, res) ]_vars

\* C14, amended: a request takes the HEIC path exactly when the extension of
\* its file name is 'heic', 'heif' or 'avif', case ignored, or its MIME type
\* contains one of the three, case ignored; photo.HEIC with an empty type
\* takes the HEIC path.
C14_SuffixDispatch ==
  [][ WorkerOnMessage =>
        LET req == Head(toWorker)
            res == toMain'[Len(toMain')]
        IN
        /\ TookHeicPath(req, res) <=>
             \E w \in HeicWords :
               \/ EqualsFolded(Extension(req.fileName), w)
               \/ ContainsFolded(req.mimeType, w)
        /\ (req.fileName = PhotoHeic.name /\ RequestFile.type = << >>) =>
             TookHeicPath(req, res) ]_vars

\* photo.HEIC with an empty type and the bytes of a JPEG is answered with the
\* adapter's error.
C14_Witness ==
  /\ Len(toMain) = 1
  /\ RequestFile.name = PhotoHeic.name
  /\ RequestFile.type = << >>
  /\ ~toMain[1].ok
  /\ toMain[1].error = "HEIC decode failed: no images found"

\* The quality an encoded JPEG or WebP was written with.
EncodedQuality(res) ==
  IF res.cleanedMimeType = "image/jpeg" THEN res.cleanedBytes[Len(JpegSOI) + 1]
  ELSE res.cleanedBytes[Len(RiffSig) + 1]

\* min(1, max(0, q)) by cases, in hundredths.
InRange(q) == IF q > 100 THEN 100 ELSE IF q < 0 THEN 0 ELSE q

\* C15: the quality the encoder is handed lies in [0, 1] and is the
\* requested one brought into the range; a request with a quality above 1 is
\* answered as the same request with quality 1, one below 0 as with quality
\* 0, and a request is answered with an error for a quality out of the
\* range only if it is for the one in the range.
C15_QualityClamped ==
  [][ WorkerOnMessage =>
        LET req == Head(toWorker)
            res == toMain'[Len(toMain')]
            same == scrub([req EXCEPT !.quality = InRange(req.quality)]).value
        IN
        /\ (res.ok /\ req.outputType # "image/png") =>
             /\ EncodedQuality(res) \in 0..100
             /\ EncodedQuality(res) = InRange(req.quality)
        /\ res = same
        /\ ~res.ok => ~same.ok ]_vars

\* A request for quality 1.5 has been encoded.
C15_Witness ==
  /\ Len(toMain) = 1
  /\ toMain[1].ok
  /\ toMain[1].cleanedMimeType # "image/png"
  /\ runs[1].quality = 150
  /\ EncodedQuality(toMain[1]) = 100

\* The snapshot of the scanner alone.
ScannerOnly(bytes) ==
  [ hasExif |-> Occurs(bytes, S_Exif),
    hasXmp |-> \E m \in XmpSignatures : Occurs(bytes, m),
    hasIptc |-> \E m \in IptcSignatures : Occurs(bytes, m),
    exifKeys |-> << >>,
    gps |-> NoValue,
    dateTimeOriginal |-> NoValue,
    make |-> NoValue,
    model |-> NoValue,
    software |-> NoValue ]

\* The structured parse of the bytes throws or yields no object.
ParseFails(bytes) ==
  LET r == ExifrParse(bytes) IN r.threw \/ r.value = NoValue

\* C16: when the structured parse throws or yields no object, the snapshot
\* is the scanner's alone, and the response is the failure variant only if
\* the decoder or the encoder failed, with that failure's message.
C16_ParseFailureAbsorbed ==
  [][ WorkerOnMessage =>
        LET req == Head(toWorker)
            res == toMain'[Len(toMain')]
            canvas == decodeToCanvas(req)
        IN
        /\ \A p \in SnapshotsOf(req, res) :
             ParseFails(p.bytes) => p.snap = ScannerOnly(p.bytes)
        /\ ParseFails(req.bytes) =>
             IF canvas.threw
             THEN ~res.ok /\ res.error = canvas.message
             ELSE IF ~platform.encoder
             THEN ~res.ok /\ res.error = "convertToBlob failed"
             ELSE res.ok ]_vars

\* A success response for a JPEG whose Exif directory is cut short: the
\* parse threw, the before snapshot still reports the literal.
C16_Witness ==
  /\ Len(toMain) = 1
  /\ toMain[1].ok
  /\ ExifrParse(RequestFile.bytes).threw
  /\ toMain[1].before.hasExif
  /\ toMain[1].before.exifKeys = << >>

\* a comes before b in the lexicographic order of the code units.
LexLess(a, b) ==
  \/ Len(a) < Len(b) /\ SubSeq(b, 1, Len(a)) = a
  \/ \E k \in 1..Len(a) :
       /\ k <= Len(b)
       /\ SubSeq(a, 1, k - 1) = SubSeq(b, 1, k - 1)
       /\ a[k] < b[k]

\* C17: exifKeys of every snapshot is in strictly ascending lexicographic
\* order (sorted, no key twice) and holds exactly the tag names of the
\* flattened mapping, also when directories repeat a tag.
C17_KeysSortedUnique ==
  [][ WorkerOnMessage =>
        \A p \in SnapshotsOf(Head(toWorker), toMain'[Len(toMain')]) :
          LET keys == p.snap.exifKeys IN
          /\ \A i, j \in 1..Len(keys) : i < j => LexLess(keys[i], keys[j])
          /\ { keys[i] : i \in 1..Len(keys) } = ExtractedKeys(p.bytes) ]_vars

\* A success response for a file whose mapping lists its two tags in
\* another order than exifKeys does.
C17_Witness ==
  /\ Len(toMain) = 1
  /\ toMain[1].ok
  /\ Len(toMain[1].before.exifKeys) = 2
  /\ ~ParseFails(RequestFile.bytes)
  /\ ObjectKeys(ExifrParse(RequestFile.bytes).value.entries)
       # toMain[1].before.exifKeys

\* The value the flattened mapping of the bytes holds for a tag name.
ValueOf(bytes, key) ==
  IF ParseFails(bytes) THEN NoValue
  ELSE LET es == ExifrParse(bytes).value.entries
           vs == { es[k].val : k \in { n \in 1..Len(es) : es[n].key = key } }
       IN IF vs = {} THEN NoValue ELSE CHOOSE v \in vs : TRUE

\* A coordinate: the standard tag, else its lowercase alias.
Coordinate(bytes, standard, alias) ==
  IF ValueOf(bytes, standard) # NoValue THEN ValueOf(bytes, standard)
  ELSE ValueOf(bytes, alias)

\* C18: a snapshot has a gps field only if the latitude or the longitude
\* read from the mapping is a number; with neither a number it has none; a
\* gps field holds the two coordinates read, one of them a number.
C18_GpsNeedsNumber ==
  [][ WorkerOnMessage =>
        \A p \in SnapshotsOf(Head(toWorker), toMain'[Len(toMain')]) :
          LET latitude == Coordinate(p.bytes, K_GPSLatitude, K_latitude)
              longitude == Coordinate(p.bytes, K_GPSLongitude, K_longitude)
          IN
          /\ p.snap.gps # NoValue => IsNumber(latitude) \/ IsNumber(longitude)
          /\ ~(IsNumber(latitude) \/ IsNumber(longitude)) => p.snap.gps = NoValue
          /\ p.snap.gps # NoValue =>
               /\ p.snap.gps = [latitude |-> latitude, longitude |-> longitude]
               /\ IsNumber(p.snap.gps.latitude) \/ IsNumber(p.snap.gps.longitude) ]_vars

\* A success response whose before snapshot has a gps field with a degree
\* triple for latitude and a number for longitude.
C18_Witness ==
  /\ Len(toMain) = 1
  /\ toMain[1].ok
  /\ toMain[1].before.gps # NoValue
  /\ ~IsNumber(toMain[1].before.gps.latitude)
  /\ IsNumber(toMain[1].before.gps.longitude)

\* ------------------------------------------------- claims on the batch runs

\* C19: a Scrub with no worker sets the standalone error 'Worker not
\* initialized' and nothing else: the items, busy (false), the suspended
\* runs and the channels stay as they are.
C19_TransportErrorOnly ==
  [][ (OnScrub /\ workerRef = Null) =>
        /\ error' = "Worker not initialized"
        /\ items' = items
        /\ busy' = busy /\ ~busy'
        /\ runs' = runs
        /\ toWorker' = toWorker
        /\ toMain' = toMain ]_vars

\* The standalone error is shown over a batch that was not started.
C19_Witness ==
  /\ error = "Worker not initialized"
  /\ Len(items) > 0
  /\ \A k \in 1..Len(items) : items[k].status = "pending"
  /\ ~busy
  /\ runs = << >>

C21_BuffersHandedOver ==
  /\ [][ \A r \in 1..Len(runs) :
           ReadDone(r) =>
             /\ runs'[r].bytes = Detached
             /\ lifecycle = "mounted" =>
                  /\ Len(toWorker') = Len(toWorker) + 1
                  /\ toWorker'[Len(toWorker')].bytes
                       = Awaited(runs[r]).file.bytes ]_vars
  /\ [][ WorkerOnMessage =>
           /\ Len(toMain') = Len(toMain) + 1
           /\ LET res == toMain'[Len(toMain')] IN
              IF res.ok THEN "cleanedBytes" \in DOMAIN res
              ELSE DOMAIN res \cap {"cleanedBytes", "bytes"} = {} ]_vars
  /\ [][ \A i \in 1..Len(items), j \in 1..Len(items') :
           items[i].id = items'[j].id => items'[j].file = items[i].file ]_vars
  /\ [](\A r \in 1..Len(runs) :
          runs[r].bytes = IF runs[r].pc = "waiting" THEN Detached ELSE NoValue)

\* The buffer of a run's second item is with the worker, the first item is
\* done and still holds the file the run was started with.
C21_Witness ==
  /\ Len(runs) = 1
  /\ runs[1].idx = 2
  /\ runs[1].bytes = Detached
  /\ Len(toWorker) = 1
  /\ toWorker[1].bytes = runs[1].items[2].file.bytes
  /\ Len(items) = 2
  /\ items[1].status = "done"
  /\ items[1].file = runs[1].items[1].file

\* C23: a success response holds as before the verification of the
\* request's bytes and as after the verification of the very bytes it
\* returns as cleanedBytes; the item of the response takes both as they
\* are; when the decoder or the encoder fails the response is the failure
\* variant, without a snapshot, and the item gets none.
C23_SnapshotsOfBothEnds ==
  /\ [][ WorkerOnMessage =>
           LET req == Head(toWorker)
               res == toMain'[Len(toMain')]
           IN
           /\ (decodeToCanvas(req).threw \/ ~platform.encoder) => ~res.ok
           /\ IF res.ok
              THEN /\ res.before = verifyDeep(req.bytes)
                   /\ res.after = verifyDeep(res.cleanedBytes)
              ELSE DOMAIN res \cap {"before", "after"} = {} ]_vars
  /\ [][ MessageEvent =>
           LET ev == Head(toMain) IN
           \A k \in 1..Len(items) :
             items[k].id = ev.id =>
               IF ev.ok
               THEN /\ items'[k].before = ev.before
                    /\ items'[k].after = ev.after
               ELSE /\ items'[k].before = NoValue
                    /\ items'[k].after = NoValue ]_vars

\* A done item whose before snapshot lists the tags of its file and whose
\* after snapshot, of the cleaned bytes, lists none.
C23_Witness ==
  /\ Len(items) = 1
  /\ items[1].status = "done"
  /\ items[1].before = verifyDeep(items[1].file.bytes)
  /\ items[1].before.exifKeys # << >>
  /\ items[1].after = verifyDeep(items[1].cleanedBlob.bytes)
  /\ items[1].after.exifKeys = << >>

\* C24: for a request that takes the HEIC path, a container without an
\* image is answered by the failure response with the message 'HEIC decode
\* failed: no images found', and an image whose display callback reports no
\* data by the failure response with the message 'HEIC processing error';
\* the two messages differ, and neither response is a success or carries
\* cleanedBytes.
C24_HeicDecodeErrors ==
  [][ WorkerOnMessage =>
        LET req == Head(toWorker)
            res == toMain'[Len(toMain')]
            data == HeifDecode(req.bytes)
        IN
        isHeicLike(req.fileName, req.mimeType) =>
          /\ Len(data) = 0 =>
                res = [id |-> req.id, ok |-> FALSE,
                       error |-> "HEIC decode failed: no images found"]
          /\ (Len(data) > 0 /\ platform.context2d /\ ~data[1].displayable) =>
                res = [id |-> req.id, ok |-> FALSE,
                       error |-> "HEIC processing error"] ]_vars

\* The worker has answered a HEIC container whose image could not be
\* displayed.
C24_Witness ==
  /\ Len(toMain) = 1
  /\ ~toMain[1].ok
  /\ toMain[1].error = "HEIC processing error"
  /\ StartsWith(items[1].file.bytes, FtypHeic)
  /\ isHeicLike(items[1].file.name, items[1].file.type)

\* C25: busy is true only while a run is active, and the step that ends the
\* last active run sets busy to false and leaves every item of the batch
\* done or error, none pending or processing (the finite form of: a started
\* run terminates, with every item done or error and busy false again).
C25_RunTerminates ==
  /\ [](busy => runs # << >>)
  /\ [][ (runs # << >> /\ runs' = << >>) =>
           /\ ~busy'
           /\ \A k \in 1..Len(items') : Terminal(items'[k].status) ]_vars

\* The listeners the suspended runs have registered on the worker.
Registered == UNION { runs[r].listeners : r \in 1..Len(runs) }

\* C26: at most one 'message' listener is registered on the worker; a
\* registered listener is that of the request its run has posted last and
\* still waits on; the event with the matching id removes it; no listener is
\* registered when no run is active, and none is left on a run that finishes.
C26_OneListener ==
  /\ [] /\ Cardinality(Registered) <= 1
        /\ \A r \in 1..Len(runs) :
             /\ Cardinality(runs[r].listeners) <= 1
             /\ runs[r].listeners # {} =>
                  /\ runs[r].pc = "waiting"
                  /\ runs[r].listeners = {Awaited(runs[r]).id}
                  /\ runs[r].posted[Len(runs[r].posted)] = Awaited(runs[r]).id
             /\ runs[r].pc = "waiting" => runs[r].listeners # {}
        /\ (~busy \/ runs = << >>) => Registered = {}
  /\ [][ \A r \in 1..Len(runs) :
           ReadDone(r) => runs'[r].listeners = {Awaited(runs[r]).id} ]_vars
  /\ [][ MessageEvent =>
           LET ev == Head(toMain)
               st == dispatchEvent(ev, 1, [runs |-> runs, items |-> items,
                                           busy |-> busy])
           IN
           /\ ev.id \notin Registered'
           /\ \A r \in 1..Len(st.runs) :
                st.runs[r].pc = "done" => st.runs[r].listeners = {} ]_vars

\* The first request of a run was answered and its listener removed; the run
\* waits on its second request with that request's listener alone.
C26_Witness ==
  /\ Len(runs) = 1
  /\ runs[1].idx = 2
  /\ runs[1].pc = "waiting"
  /\ Len(runs[1].posted) = 2
  /\ Registered = {runs[1].items[2].id}
  /\ runs[1].items[1].id \notin Registered

====
